---- MODULE Spec2Model ----
(***************************************************************************)
(* A model of lnagb.js: the IdentityMatrix class                           *)
(* (src/src/matrices/IdentityMatrix.js), linearCombination                 *)
(* (src/src/algebra/Algebra.js) and the linear-system solver exported by   *)
(* index.js (src/unnamed/part_000).                                        *)
(*                                                                         *)
(* JavaScript arrays live in a heap: an address is an index into `heap`,   *)
(* an array is a sequence of cells, a cell is a number or a reference to   *)
(* another array.  Two names alias exactly when they hold one address.     *)
(***************************************************************************)
EXTENDS Integers, Sequences, FiniteSets, TLC

\* Largest `size` handed to `new IdentityMatrix( size )`.
MaxSize == 3
\* Largest `size` where the caller also writes into what the calls returned.
MaxAliasSize == 2
\* Number of calls that allocate (row, column, mainDiagonal, clone, transpose).
MaxAlloc == 2
\* Number of element writes the caller performs.
MaxWrites == 1
\* Depth of traversals started from inside a traversal's callback.
MaxDepth == 2

VARIABLES
    heap,       \* Seq of arrays; heap[a] is the array at address a
    objs,       \* Seq of IdentityMatrix instances; objs[1] is the constructed one
    rets,       \* Seq of addresses of arrays returned to the caller
    copies,     \* Seq of [from, obj]: instances returned by clone / transpose
    res,        \* outcome of the last call the caller made
    stack,      \* running forEach / forEachRow / forEachColumn frames
    allocs,     \* allocating calls made so far
    writes,     \* caller writes made so far
    p, q,       \* arguments of linearCombination
    lc,         \* outcome of linearCombination( p, q )
    sys         \* the linear system being solved

vars == <<heap, objs, rets, copies, res, stack, allocs, writes, p, q, lc, sys>>

----------------------------------------------------------------------------
(* Heap cells and JavaScript array primitives *)

Num(v) == [t |-> "num", v |-> v]
Ref(a) == [t |-> "ref", v |-> a]

\* new Array( n ).fill( v )
Fill(n, v) == [k \in 1..n |-> Num(v)]

\* arr[ idx ] = cell, idx 0-based.  A negative idx sets a property that is no
\* element; idx = arr.length extends the array by one.
ArraySet(arr, idx, cell) ==
    IF idx < 0 THEN arr
    ELSE IF idx < Len(arr) THEN [arr EXCEPT ![idx + 1] = cell]
    ELSE Append(arr, cell)

\* The numbers held by an array of numbers.
Values(arr) == [k \in 1..Len(arr) |-> arr[k].v]

----------------------------------------------------------------------------
(* IdentityMatrix: constructor *)

\* for ( index = 0; index < _n; index += _size ) elements[ index ] = 1
RECURSIVE FillDiagonal(_, _, _, _)
FillDiagonal(elements, index, _size, _n) ==
    IF index < _n
    THEN FillDiagonal(ArraySet(elements, index, Num(1)), index + _size, _size, _n)
    ELSE elements

\* (a stride of `size` walks down the first column's neighbours instead)
DiagonalStepNoCarry(size) == size
\* let _size = size + 1
DiagonalStep(size) == size + 1

\* this.elements after the constructor
IdentityElements(size) ==
    FillDiagonal(Fill(size * size, 0), 0, DiagonalStep(size), size * size)

\* let row = new Array( size ).fill( 0 ); row[ i ] = 1
UnitRow(size, i) == ArraySet(Fill(size, 0), i, Num(1))

\* (the entry count in place of the size)
RankOfEntries(size) == size * size
\* this.rank = size
RankOf(size) == size

\* The arrays `new IdentityMatrix( size )` allocates, in address order from
\* base + 1: elements, rows, the `size` row arrays, columns (= rows.slice(),
\* a new outer array holding the same row arrays).
ConstructHeap(h, size) ==
    LET base == Len(h)
        outer == [i \in 1..size |-> Ref(base + 2 + i)]
    IN  h \o <<IdentityElements(size)>>
          \o <<outer>>
          \o [i \in 1..size |-> UnitRow(size, i - 1)]
          \o <<outer>>

\* The instance `new IdentityMatrix( size )` on heap h.
ConstructObj(h, size) ==
    [ size            |-> [rows |-> size, columns |-> size],
      numberOfEntries |-> size * size,
      elements        |-> Len(h) + 1,
      rank            |-> RankOf(size),
      rows            |-> Len(h) + 2,
      columns         |-> Len(h) + 3 + size ]

----------------------------------------------------------------------------
(* Outcome of a call *)

NoRes == [op |-> "none", obj |-> 0, args |-> <<>>, kind |-> "none", val |-> 0,
          calls |-> <<>>]

\* a call that returned the number v
Returned(op, o, args, v) ==
    [op |-> op, obj |-> o, args |-> args, kind |-> "number", val |-> v,
     calls |-> <<>>]
\* a call that returned the array at address a
ReturnedArray(op, o, args, a) ==
    [op |-> op, obj |-> o, args |-> args, kind |-> "array", val |-> a,
     calls |-> <<>>]
\* a call that returned instance number k
ReturnedObj(op, o, k) ==
    [op |-> op, obj |-> o, args |-> <<>>, kind |-> "object", val |-> k,
     calls |-> <<>>]
\* a traversal that returned after invoking its callback with `calls`
ReturnedVoid(op, o, calls) ==
    [op |-> op, obj |-> o, args |-> <<>>, kind |-> "void", val |-> 0,
     calls |-> calls]
\* a call or assignment that threw `err`
Threw(op, o, args, err) ==
    [op |-> op, obj |-> o, args |-> args, kind |-> err, val |-> 0,
     calls |-> <<>>]

Idle == stack = <<>>

Top == stack[Len(stack)]

----------------------------------------------------------------------------
(* IdentityMatrix: accessors *)

\* entry( r, c ): ( r === c ) ? 1 : 0
EntryOf(o, r, c) == IF r = c THEN 1 ELSE 0

\* (the stored row handed out instead of a new array)
RowCallStored(h, obj, r) ==
    IF r \in 1..obj.size.rows /\ h[obj.rows][r].t = "ref"
    THEN [heap |-> h, addr |-> h[obj.rows][r].v]
    ELSE [heap |-> Append(h, UnitRow(obj.size.rows, r - 1)), addr |-> Len(h) + 1]
\* row( r ): a new array of `size` zeros with row[ r - 1 ] = 1
RowCall(h, obj, r) ==
    [heap |-> Append(h, UnitRow(obj.size.rows, r - 1)), addr |-> Len(h) + 1]

\* (the receiver handed back, as the getter's comment has it)
CloneSelf(h, os, o) == [heap |-> h, objs |-> os, k |-> o]
\* clone(): new this.constructor( this.size.rows )
CloneCall(h, os, o) ==
    [heap |-> ConstructHeap(h, os[o].size.rows),
     objs |-> Append(os, ConstructObj(h, os[o].size.rows)),
     k    |-> Len(os) + 1]

\* Positions handed to the accessors: 0 and size + 1 lie outside [1, size].
Positions(o) == 0..(objs[o].size.rows + 1)

Entry(o, r, c) ==
    /\ Idle
    /\ res' = Returned("entry", o, <<r, c>>, EntryOf(o, r, c))
    /\ UNCHANGED <<heap, objs, rets, copies, stack, allocs, writes, p, q, lc, sys>>

Row(o, r) ==
    /\ Idle
    /\ allocs < MaxAlloc
    /\ LET call == RowCall(heap, objs[o], r)
       IN  /\ heap' = call.heap
           /\ rets' = Append(rets, call.addr)
           /\ res' = ReturnedArray("row", o, <<r>>, call.addr)
    /\ allocs' = allocs + 1
    /\ UNCHANGED <<objs, copies, stack, writes, p, q, lc, sys>>

\* column( c ): return this.row( c )
Column(o, c) ==
    /\ Idle
    /\ allocs < MaxAlloc
    /\ LET call == RowCall(heap, objs[o], c)
       IN  /\ heap' = call.heap
           /\ rets' = Append(rets, call.addr)
           /\ res' = ReturnedArray("column", o, <<c>>, call.addr)
    /\ allocs' = allocs + 1
    /\ UNCHANGED <<objs, copies, stack, writes, p, q, lc, sys>>

\* mainDiagonal(): new Array( this.size.rows ).fill( 1 )
MainDiagonal(o) ==
    /\ Idle
    /\ allocs < MaxAlloc
    /\ heap' = Append(heap, Fill(objs[o].size.rows, 1))
    /\ rets' = Append(rets, Len(heap) + 1)
    /\ res' = ReturnedArray("mainDiagonal", o, <<>>, Len(heap) + 1)
    /\ allocs' = allocs + 1
    /\ UNCHANGED <<objs, copies, stack, writes, p, q, lc, sys>>

\* leadingCoefficient( r ): return 1
LeadingCoefficient(o, r) ==
    /\ Idle
    /\ res' = Returned("leadingCoefficient", o, <<r>>, 1)
    /\ UNCHANGED <<heap, objs, rets, copies, stack, allocs, writes, p, q, lc, sys>>

Clone(o) ==
    /\ Idle
    /\ allocs < MaxAlloc
    /\ LET call == CloneCall(heap, objs, o)
       IN  /\ heap' = call.heap
           /\ objs' = call.objs
           /\ copies' = Append(copies, [from |-> o, obj |-> call.k])
           /\ res' = ReturnedObj("clone", o, call.k)
    /\ allocs' = allocs + 1
    /\ UNCHANGED <<rets, stack, writes, p, q, lc, sys>>

\* get transpose(): return this.clone()
Transpose(o) ==
    /\ Idle
    /\ allocs < MaxAlloc
    /\ LET call == CloneCall(heap, objs, o)
       IN  /\ heap' = call.heap
           /\ objs' = call.objs
           /\ copies' = Append(copies, [from |-> o, obj |-> call.k])
           /\ res' = ReturnedObj("transpose", o, call.k)
    /\ allocs' = allocs + 1
    /\ UNCHANGED <<rets, stack, writes, p, q, lc, sys>>

----------------------------------------------------------------------------
(* IdentityMatrix: iterators.  A frame holds the locals of one running call;
   pc = "loop" is the loop test, pc = "cb" is inside the callback. *)

Kinds == {"forEach", "forEachRow", "forEachColumn"}

\* forEach: _n = _nCols * _nCols, r = 1, c = 1, index = 0
\* forEachRow: _nRows = this.size.rows, i = 0 (forEachColumn calls forEachRow)
NewFrame(kind, o) ==
    [kind |-> kind, obj |-> o, index |-> 0, r |-> 1, c |-> 1, pc |-> "loop",
     limit |-> IF kind = "forEach"
               THEN objs[o].size.columns * objs[o].size.columns
               ELSE objs[o].size.rows,
     log |-> <<>>]

\* What the callback is invoked with.
CallArgs(f) ==
    IF f.kind = "forEach"
    THEN [entry |-> IF f.r = f.c THEN 1 ELSE 0, seq |-> <<>>,
          r |-> f.r, c |-> f.c, index |-> f.index]
    ELSE [entry |-> 0,
          seq |-> Values(UnitRow(objs[f.obj].size.rows, f.index)),
          r |-> f.index + 1, c |-> 0, index |-> 0]

\* (wraps one column early)
AdvanceEarlyWrap(f) ==
    IF f.kind = "forEach"
    THEN LET c1 == f.c + 1
         IN  IF c1 >= objs[f.obj].size.columns
             THEN [f EXCEPT !.c = 1, !.r = f.r + 1, !.index = f.index + 1, !.pc = "loop"]
             ELSE [f EXCEPT !.c = c1, !.index = f.index + 1, !.pc = "loop"]
    ELSE [f EXCEPT !.index = f.index + 1, !.pc = "loop"]
\* forEach: c ++; if ( c > _nCols ) ( c = 1, r ++ ); index ++
\* forEachRow: i ++
Advance(f) ==
    IF f.kind = "forEach"
    THEN LET c1 == f.c + 1
         IN  IF c1 > objs[f.obj].size.columns
             THEN [f EXCEPT !.c = 1, !.r = f.r + 1, !.index = f.index + 1, !.pc = "loop"]
             ELSE [f EXCEPT !.c = c1, !.index = f.index + 1, !.pc = "loop"]
    ELSE [f EXCEPT !.index = f.index + 1, !.pc = "loop"]

SetTop(f) == [stack EXCEPT ![Len(stack)] = f]

\* The caller starts forEach / forEachRow / forEachColumn.
StartTraversal(o, kind) ==
    /\ Idle
    /\ stack' = <<NewFrame(kind, o)>>
    /\ res' = NoRes
    /\ UNCHANGED <<heap, objs, rets, copies, allocs, writes, p, q, lc, sys>>

\* The callback starts a traversal of its own.
StartNested(o, kind) ==
    /\ ~Idle
    /\ Top.pc = "cb"
    /\ Len(stack) < MaxDepth
    /\ stack' = Append(stack, NewFrame(kind, o))
    /\ UNCHANGED <<heap, objs, rets, copies, res, allocs, writes, p, q, lc, sys>>

\* index < _n: callback.bind( thisArg )( ... )
Invoke ==
    /\ ~Idle
    /\ Top.pc = "loop"
    /\ Top.index < Top.limit
    /\ stack' = SetTop([Top EXCEPT !.log = Append(Top.log, CallArgs(Top)), !.pc = "cb"])
    /\ UNCHANGED <<heap, objs, rets, copies, res, allocs, writes, p, q, lc, sys>>

\* The callback returns and the loop body ends.
CallbackReturn ==
    /\ ~Idle
    /\ Top.pc = "cb"
    /\ stack' = SetTop(Advance(Top))
    /\ UNCHANGED <<heap, objs, rets, copies, res, allocs, writes, p, q, lc, sys>>

\* The loop test fails and the traversal returns.
Finish ==
    /\ ~Idle
    /\ Top.pc = "loop"
    /\ Top.index >= Top.limit
    /\ res' = ReturnedVoid(Top.kind, Top.obj, Top.log)
    /\ stack' = SubSeq(stack, 1, Len(stack) - 1)
    /\ UNCHANGED <<heap, objs, rets, copies, allocs, writes, p, q, lc, sys>>

----------------------------------------------------------------------------
(* Specification of the class's own operations *)

InitMatrix(maxSize) ==
    /\ \E size \in 0..maxSize :
        /\ heap = ConstructHeap(<<>>, size)
        /\ objs = <<ConstructObj(<<>>, size)>>
    /\ rets = <<>>
    /\ copies = <<>>
    /\ res = NoRes
    /\ stack = <<>>
    /\ allocs = 0
    /\ writes = 0

IdleAlgebra == p = <<>> /\ q = <<>> /\ lc = [kind |-> "none", val |-> 0]
IdleSolve == sys = [pc |-> "idle"]

Init == InitMatrix(MaxSize) /\ IdleAlgebra /\ IdleSolve

Objs == 1..Len(objs)

CallEntry == \E o \in Objs : \E r, c \in Positions(o) : Entry(o, r, c)
CallRow == \E o \in Objs : \E r \in Positions(o) : Row(o, r)
CallColumn == \E o \in Objs : \E c \in Positions(o) : Column(o, c)
CallMainDiagonal == \E o \in Objs : MainDiagonal(o)
CallLeadingCoefficient == \E o \in Objs : \E r \in Positions(o) : LeadingCoefficient(o, r)
CallClone == \E o \in Objs : Clone(o)
CallTranspose == \E o \in Objs : Transpose(o)
CallTraversal == \E o \in Objs : \E kind \in Kinds : StartTraversal(o, kind)
CallNested == \E o \in Objs : \E kind \in Kinds : StartNested(o, kind)

Next ==
    \/ CallEntry
    \/ CallRow
    \/ CallColumn
    \/ CallMainDiagonal
    \/ CallLeadingCoefficient
    \/ CallClone
    \/ CallTranspose
    \/ CallTraversal
    \/ Invoke
    \/ CallbackReturn
    \/ Finish

Spec == Init /\ [][Next]_vars

----------------------------------------------------------------------------
(* The caller's assignments.  Every property of an instance is a plain public
   property and every array is a plain array: nothing is frozen and no setter
   intercepts, so an assignment stores. *)

WriteValues == {5}

Assigned(op, o) ==
    [op |-> op, obj |-> o, args |-> <<>>, kind |-> "stored", val |-> 0,
     calls |-> <<>>]

\* ret[ i - 1 ] = v on an array row / column / mainDiagonal returned
WriteReturned(a, i, v) ==
    /\ Idle
    /\ writes < MaxWrites
    /\ heap' = [heap EXCEPT ![a][i] = Num(v)]
    /\ res' = Assigned("write", 0)
    /\ writes' = writes + 1
    /\ UNCHANGED <<objs, rets, copies, stack, allocs, p, q, lc, sys>>

\* m.elements[ k - 1 ] = v
AssignElement(o, k, v) ==
    /\ Idle
    /\ writes < MaxWrites
    /\ heap' = [heap EXCEPT ![objs[o].elements][k] = Num(v)]
    /\ res' = Assigned("assignElement", o)
    /\ writes' = writes + 1
    /\ UNCHANGED <<objs, rets, copies, stack, allocs, p, q, lc, sys>>

\* m.rows[ i - 1 ][ j - 1 ] = v, or the same through m.columns
AssignRowEntry(o, outer, i, j, v) ==
    /\ Idle
    /\ writes < MaxWrites
    /\ heap[outer][i].t = "ref"
    /\ j \in 1..Len(heap[heap[outer][i].v])
    /\ heap' = [heap EXCEPT ![heap[outer][i].v][j] = Num(v)]
    /\ res' = Assigned("assignElement", o)
    /\ writes' = writes + 1
    /\ UNCHANGED <<objs, rets, copies, stack, allocs, p, q, lc, sys>>

\* m.rows[ i - 1 ] = v, or the same on m.columns
AssignRowSlot(o, outer, i, v) ==
    /\ Idle
    /\ writes < MaxWrites
    /\ heap' = [heap EXCEPT ![outer][i] = Num(v)]
    /\ res' = Assigned("assignElement", o)
    /\ writes' = writes + 1
    /\ UNCHANGED <<objs, rets, copies, stack, allocs, p, q, lc, sys>>

Range(s) == {s[i] : i \in 1..Len(s)}
Held == {cp.obj : cp \in Range(copies)}
Outers(o) == {objs[o].rows, objs[o].columns}
Indices(o) == 1..objs[o].size.rows

WriteIntoReturned ==
    \E a \in Range(rets) : \E i \in 1..Len(heap[a]) : \E v \in WriteValues :
        WriteReturned(a, i, v)
WriteCopyElement ==
    \E o \in Held : \E k \in 1..Len(heap[objs[o].elements]) : \E v \in WriteValues :
        AssignElement(o, k, v)
WriteCopyRowEntry ==
    \E o \in Held : \E outer \in Outers(o) : \E i, j \in Indices(o) : \E v \in WriteValues :
        AssignRowEntry(o, outer, i, j, v)
WriteCopyRowSlot ==
    \E o \in Held : \E outer \in Outers(o) : \E i \in Indices(o) : \E v \in WriteValues :
        AssignRowSlot(o, outer, i, v)

\* row( r ) and column( c ) at the positions of the matrix.
CallRowInside == \E o \in Objs : \E r \in Indices(o) : Row(o, r)
CallColumnInside == \E o \in Objs : \E c \in Indices(o) : Column(o, c)

NextAlias ==
    \/ CallRowInside
    \/ CallColumnInside
    \/ CallMainDiagonal
    \/ CallClone
    \/ CallTranspose
    \/ WriteIntoReturned
    \/ WriteCopyElement
    \/ WriteCopyRowEntry
    \/ WriteCopyRowSlot

\* The class's allocating operations with a caller that writes into what they
\* returned.
InitAlias == InitMatrix(MaxAliasSize) /\ IdleAlgebra /\ IdleSolve

SpecAlias == InitAlias /\ [][NextAlias]_vars

----------------------------------------------------------------------------
(* Mutation attempted on the constructed instance itself *)

\* m.swapRows( i, j ), m.scaleRow( i, k ), m.addRowMultiple( i, j, k ): the class
\* defines none of them, so the property read yields undefined and the call
\* throws TypeError.
CallMissing(op, o, args) ==
    /\ Idle
    /\ res' = Threw(op, o, args, "TypeError")
    /\ UNCHANGED <<heap, objs, rets, copies, stack, allocs, writes, p, q, lc, sys>>

Scalars == {2}

CallSwapRows == \E i, j \in Indices(1) : CallMissing("swapRows", 1, <<i, j>>)
CallScaleRow == \E i \in Indices(1) : \E k \in Scalars : CallMissing("scaleRow", 1, <<i, k>>)
CallAddRowMultiple ==
    \E i, j \in Indices(1) : \E k \in Scalars : CallMissing("addRowMultiple", 1, <<i, j, k>>)
AssignOwnElement ==
    \E k \in 1..Len(heap[objs[1].elements]) : \E v \in WriteValues : AssignElement(1, k, v)
AssignOwnRowEntry ==
    \E outer \in Outers(1) : \E i, j \in Indices(1) : \E v \in WriteValues :
        AssignRowEntry(1, outer, i, j, v)

NextMut ==
    \/ AssignOwnElement
    \/ AssignOwnRowEntry
    \/ CallSwapRows
    \/ CallScaleRow
    \/ CallAddRowMultiple
    \/ CallRow
    \/ CallClone

SpecMut == InitAlias /\ [][NextMut]_vars

----------------------------------------------------------------------------
(* Traversals whose callback starts further traversals *)

NextTraverse ==
    \/ CallTraversal
    \/ CallNested
    \/ Invoke
    \/ CallbackReturn
    \/ Finish

SpecTraverse == Init /\ [][NextTraverse]_vars

----------------------------------------------------------------------------
(* Properties of IdentityMatrix *)

InRange(o, k) == k \in 1..objs[o].size.rows

\* The addresses an instance's properties reach.
Storage(o) ==
    {objs[o].elements, objs[o].rows, objs[o].columns}
        \cup {cell.v : cell \in {x \in Range(heap[objs[o].rows]) : x.t = "ref"}}
        \cup {cell.v : cell \in {x \in Range(heap[objs[o].columns]) : x.t = "ref"}}

\* The constructed instance's arrays hold what its constructor stored.
Pristine ==
    SubSeq(heap, 1, objs[1].size.rows + 3) = ConstructHeap(<<>>, objs[1].size.rows)

\* C3: on every instance, of any size n, entry( r, c ) for 1 <= r, c <= n is 1
\* on the diagonal and 0 off it, and equals the flat row-major store
\* `elements` at offset (r-1)*n + (c-1), whose length is n*n; on
\* IdentityMatrix( 3 ) entry( 2, 2 ) is 1 and entry( 1, 2 ) is 0.
C3_EntryMatchesStore ==
    /\ \A o \in Objs :
         LET n == objs[o].size.rows
             elements == heap[objs[o].elements]
         IN  /\ Len(elements) = n * n
             /\ objs[o].numberOfEntries = n * n
             /\ \A r, c \in 1..n :
                  /\ EntryOf(o, r, c) = (IF r = c THEN 1 ELSE 0)
                  /\ elements[(r - 1) * n + (c - 1) + 1] = Num(EntryOf(o, r, c))
    /\ (res.op = "entry" /\ InRange(res.obj, res.args[1]) /\ InRange(res.obj, res.args[2]))
         => /\ res.kind = "number"
            /\ Num(res.val) = heap[objs[res.obj].elements]
                  [(res.args[1] - 1) * objs[res.obj].size.rows + res.args[2]]
    /\ (res.op = "entry" /\ objs[res.obj].size.rows = 3 /\ res.args = <<2, 2>>)
         => res.val = 1
    /\ (res.op = "entry" /\ objs[res.obj].size.rows = 3 /\ res.args = <<1, 2>>)
         => res.val = 0

\* entry( 1, 2 ) has returned on an IdentityMatrix( 3 ).
C3_Witness ==
    /\ res.op = "entry"
    /\ objs[res.obj].size.rows = 3
    /\ res.args = <<1, 2>>
    /\ res.val = 0

\* C4: entry( r, c ), row( r ) and column( c ) given a position outside
\* [1, n] fail with IndexOutOfRange and return no value.
C4_OutOfRangeRejected ==
    (/\ res.op \in {"entry", "row", "column"}
     /\ \E k \in 1..Len(res.args) : ~InRange(res.obj, res.args[k]))
        => res.kind = "IndexOutOfRange"

\* C5: swapRows, scaleRow, addRowMultiple or an element assignment attempted
\* on an IdentityMatrix fails with Unsupported and leaves the elements, rows
\* and rank as they were.
C5_MutationRejected ==
    (/\ res.op \in {"swapRows", "scaleRow", "addRowMultiple", "assignElement"}
     /\ res.obj = 1)
        => /\ res.kind = "Unsupported"
           /\ Pristine
           /\ objs[1].rank = objs[1].size.rows

\* C6: rank equals the size on every instance, the constructed one and those
\* clone and transpose return, in every state the class's operations reach;
\* so rank <= min( rows, columns ).
C6_RankIsSize ==
    \A o \in Objs :
        /\ objs[o].rank = objs[o].size.rows
        /\ objs[o].rank <= objs[o].size.rows
        /\ objs[o].rank <= objs[o].size.columns

\* transpose has returned on an instance clone returned, of size at least 2.
C6_Witness ==
    /\ res.op = "transpose"
    /\ res.obj # 1
    /\ objs[res.val].rank >= 2

\* C7: the arrays row( r ) and column( c ) return are new each time: no two
\* returned arrays are one array, none is an array the instance stores, so
\* after the caller's writes into them the instance's elements, rows and
\* columns hold what the constructor stored and a later row( r ),
\* column( c ) or mainDiagonal() returns the same as before.
C7_ReturnedRowsIndependent ==
    /\ \A i, j \in 1..Len(rets) : i # j => rets[i] # rets[j]
    /\ \A a \in Range(rets) : \A o \in Objs : a \notin Storage(o)
    /\ Pristine
    /\ (res.op \in {"row", "column"} /\ InRange(res.obj, res.args[1]))
         => Values(heap[res.val]) =
              [k \in 1..objs[res.obj].size.rows |-> EntryOf(res.obj, res.args[1], k)]
    /\ res.op = "mainDiagonal"
         => Values(heap[res.val]) = [k \in 1..objs[res.obj].size.rows |-> 1]

\* row( r ) has returned after the caller wrote into an array returned before.
C7_Witness ==
    /\ res.op = "row"
    /\ InRange(res.obj, res.args[1])
    /\ \E a \in Range(rets) \ {res.val} : \E i \in 1..Len(heap[a]) : heap[a][i] = Num(5)

----------------------------------------------------------------------------
(* Properties of the iterators *)

\* The array row( r ) returns, as numbers.
RowValues(o, r) ==
    LET call == RowCall(heap, objs[o], r) IN Values(call.heap[call.addr])

\* Row-major positions 1..n*n with their entries and 0-based indices.
ExpectedEntries(o) ==
    LET n == objs[o].size.columns
    IN  [k \in 1..(n * n) |->
            [entry |-> EntryOf(o, ((k - 1) \div n) + 1, ((k - 1) % n) + 1),
             seq   |-> <<>>,
             r     |-> ((k - 1) \div n) + 1,
             c     |-> ((k - 1) % n) + 1,
             index |-> k - 1]]

\* Rows (columns) 1..n with row( r ).
ExpectedRows(o) ==
    [k \in 1..objs[o].size.rows |->
        [entry |-> 0, seq |-> RowValues(o, k), r |-> k, c |-> 0, index |-> 0]]

Expected(kind, o) == IF kind = "forEach" THEN ExpectedEntries(o) ELSE ExpectedRows(o)

\* C8: forEach invokes its callback n*n times, in row-major order, with
\* entry( r, c ), r, c and index (r-1)*n + (c-1); forEachRow and
\* forEachColumn invoke it n times, in order, with row( r ); a traversal
\* started after or from inside another one runs in full all the same.
C8_TraversalComplete ==
    /\ res.kind = "void" => res.calls = Expected(res.op, res.obj)
    /\ \A d \in 1..Len(stack) :
         LET f == stack[d]
         IN  /\ Len(f.log) = f.index + (IF f.pc = "cb" THEN 1 ELSE 0)
             /\ Len(f.log) <= Len(Expected(f.kind, f.obj))
             /\ f.log = SubSeq(Expected(f.kind, f.obj), 1, Len(f.log))

\* A forEach started inside a running forEach's callback has returned, after
\* nine calls, and the outer one is past its first row.
C8_Witness ==
    /\ Len(stack) = 1
    /\ Top.kind = "forEach"
    /\ Top.pc = "cb"
    /\ Len(Top.log) > objs[1].size.columns
    /\ res.kind = "void"
    /\ res.op = "forEach"
    /\ Len(res.calls) = 9

----------------------------------------------------------------------------
(* linearCombination.  A JavaScript number is an integer or NaN; reading an
   array past its end yields undefined, and undefined in a product yields
   NaN. *)

\* Longest sequence handed to linearCombination, the example's apart.
MaxLen == 2

Number(v) == [kind |-> "number", val |-> v]
NaN == [kind |-> "NaN", val |-> 0]
Undefined == [kind |-> "undefined", val |-> 0]

\* arr[ i ], i 0-based
Read(arr, i) == IF i < Len(arr) THEN Number(arr[i + 1]) ELSE Undefined

\* a * b
Mul(a, b) ==
    IF a.kind = "number" /\ b.kind = "number" THEN Number(a.val * b.val) ELSE NaN

\* a + b
Add(a, b) ==
    IF a.kind = "number" /\ b.kind = "number" THEN Number(a.val + b.val) ELSE NaN

\* (the terms added instead of multiplied)
TermSum(ps, qs, i) == Add(Read(ps, i), Read(qs, i))
\* p[ i ] * q[ i ]
Term(ps, qs, i) == Mul(Read(ps, i), Read(qs, i))

\* p.reduce( ( result, v, i ) => result + p[ i ] * q[ i ], 0 ): the callback
\* runs for i = 0 .. p.length - 1, whatever q's length
RECURSIVE Reduce(_, _, _, _)
Reduce(ps, qs, i, result) ==
    IF i >= Len(ps) THEN result
    ELSE Reduce(ps, qs, i + 1, Add(result, Term(ps, qs, i)))

linearCombination(ps, qs) == Reduce(ps, qs, 0, Number(0))

LCValues == {-1, 0, 2}

RECURSIVE SeqsOfLen(_, _)
SeqsOfLen(S, n) ==
    IF n = 0 THEN {<<>>}
    ELSE {Append(s, v) : s \in SeqsOfLen(S, n - 1), v \in S}

SeqsUpTo(S, n) == UNION {SeqsOfLen(S, k) : k \in 0..n}

LCInputs == SeqsUpTo(LCValues, MaxLen) \cup {<<1, 2, 3>>, <<4, 5, 6>>}

IdleMatrix ==
    /\ heap = <<>>
    /\ objs = <<>>
    /\ rets = <<>>
    /\ copies = <<>>
    /\ res = NoRes
    /\ stack = <<>>
    /\ allocs = 0
    /\ writes = 0

InitAlgebra ==
    /\ p \in LCInputs
    /\ q \in LCInputs
    /\ lc = [kind |-> "none", val |-> 0]
    /\ IdleMatrix
    /\ IdleSolve

CallLinearCombination ==
    /\ lc.kind = "none"
    /\ lc' = linearCombination(p, q)
    /\ UNCHANGED <<heap, objs, rets, copies, res, stack, allocs, writes, p, q, sys>>

NextAlgebra == CallLinearCombination

SpecAlgebra == InitAlgebra /\ [][NextAlgebra]_vars

\* The sum of the products of the terms at the same place, last term first.
RECURSIVE SumOfProducts(_, _)
SumOfProducts(ps, qs) ==
    IF Len(ps) = 0 THEN 0
    ELSE SumOfProducts(SubSeq(ps, 1, Len(ps) - 1), SubSeq(qs, 1, Len(ps) - 1))
            + ps[Len(ps)] * qs[Len(ps)]

\* C1: for p and q of one length n, n = 0 included, linearCombination( p, q )
\* returns the sum over i of p[i]*q[i], 0 for empty sequences;
\* linearCombination( [1,2,3], [4,5,6] ) is 32.
C1_LinearCombinationIsDotProduct ==
    /\ (lc.kind # "none" /\ Len(p) = Len(q)) => lc = Number(SumOfProducts(p, q))
    /\ (lc.kind # "none" /\ p = <<>> /\ q = <<>>) => lc = Number(0)
    /\ (lc.kind # "none" /\ p = <<1, 2, 3>> /\ q = <<4, 5, 6>>) => lc = Number(32)

\* linearCombination( [1,2,3], [4,5,6] ) has returned 32.
C1_Witness ==
    /\ p = <<1, 2, 3>>
    /\ q = <<4, 5, 6>>
    /\ lc = Number(32)

\* C2: for p and q of different lengths linearCombination( p, q ) fails with
\* DimensionMismatch and returns no numeric result.
C2_LengthMismatchRejected ==
    (lc.kind # "none" /\ Len(p) # Len(q)) => lc.kind = "DimensionMismatch"

----------------------------------------------------------------------------
(* Solving a linear system: LinearEquation rows, the AugmentedMatrix built
   from them, its row reduction and the classification of the result.
   Entries are exact rationals [n, d] in lowest terms with d > 0. *)

\* Largest number of equations and of unknowns of a generated system.
MaxEquations == 2
MaxUnknowns == 2

RECURSIVE GCD(_, _)
GCD(a, b) == IF b = 0 THEN a ELSE GCD(b, a % b)

Abs(x) == IF x < 0 THEN -x ELSE x

Rat(n, d) ==
    LET sn == IF d < 0 THEN -n ELSE n
        sd == Abs(d)
        g == GCD(Abs(sn), sd)
    IN  [n |-> sn \div g, d |-> sd \div g]

Int2Rat(i) == [n |-> i, d |-> 1]
Zero == Int2Rat(0)
One == Int2Rat(1)
RAdd(x, y) == Rat(x.n * y.d + y.n * x.d, x.d * y.d)
RMul(x, y) == Rat(x.n * y.n, x.d * y.d)
RNeg(x) == [n |-> -x.n, d |-> x.d]
RInv(x) == Rat(x.d, x.n)

\* LinearEquation: coefficients c1..cn and one constant k.
LinearEquation(coefficients, constant) ==
    [coefficients |-> coefficients, constant |-> constant]

\* AugmentedMatrix build: one row per equation, its coefficients then its
\* constant; equations of different arities fail with DimensionMismatch.
BuildAugmented(equations) ==
    IF \E i, j \in 1..Len(equations) :
          Len(equations[i].coefficients) # Len(equations[j].coefficients)
    THEN [error |-> "DimensionMismatch", rows |-> <<>>, unknowns |-> 0]
    ELSE [error |-> "none",
          rows |-> [i \in 1..Len(equations) |->
                      [j \in 1..(Len(equations[i].coefficients) + 1) |->
                          IF j <= Len(equations[i].coefficients)
                          THEN Int2Rat(equations[i].coefficients[j])
                          ELSE Int2Rat(equations[i].constant)]],
          unknowns |-> Len(equations[1].coefficients)]

\* swapRows( i, j )
SwapRows(m, i, j) == [m EXCEPT ![i] = m[j], ![j] = m[i]]
\* scaleRow( i, k )
ScaleRow(m, i, k) == [m EXCEPT ![i] = [c \in 1..Len(m[i]) |-> RMul(k, m[i][c])]]
\* addRowMultiple( i, j, k ): row i becomes row i + k * row j
AddRowMultiple(m, i, j, k) ==
    [m EXCEPT ![i] = [c \in 1..Len(m[i]) |-> RAdd(m[i][c], RMul(k, m[j][c]))]]

\* (the scan started at the first row, not at the pivot row)
PivotCandidatesFromTop(m, prow, c) == {r \in 1..Len(m) : m[r][c] # Zero}
\* 4.2 step 2a: the rows prow..rows whose entry in column c is non-zero
PivotCandidates(m, prow, c) == {r \in prow..Len(m) : m[r][c] # Zero}

Min(S) == CHOOSE x \in S : \A y \in S : x <= y

\* 4.2 step 2d: every row i other than prow with a non-zero entry in column c
\* gets addRowMultiple( i, prow, -entry( i, c ) ), one row after the other
RECURSIVE Eliminate(_, _, _, _)
Eliminate(m, prow, c, i) ==
    IF i > Len(m) THEN m
    ELSE IF i # prow /\ m[i][c] # Zero
         THEN Eliminate(AddRowMultiple(m, i, prow, RNeg(m[i][c])), prow, c, i + 1)
         ELSE Eliminate(m, prow, c, i + 1)

\* 4.2 steps 2b-2d on column c with the pivot found in row r
PivotOn(m, prow, c, r) ==
    LET swapped == IF r # prow THEN SwapRows(m, r, prow) ELSE m
        scaled == ScaleRow(swapped, prow, RInv(swapped[prow][c]))
    IN  Eliminate(scaled, prow, c, 1)

\* 4.3: a row with all-zero coefficients and a non-zero constant
Inconsistent(m, unknowns) ==
    \E i \in 1..Len(m) :
        /\ \A c \in 1..unknowns : m[i][c] = Zero
        /\ m[i][unknowns + 1] # Zero

NoOutcome == [tag |-> "none", values |-> <<>>, free |-> {}, expressions |-> <<>>]

\* 4.3: the outcome read off the reduced matrix; pivots[k] is the column of
\* the pivot in row k
Classify(m, unknowns, pivots) ==
    LET rowOf(c) == CHOOSE k \in 1..Len(pivots) : pivots[k] = c
        basic == {pivots[k] : k \in 1..Len(pivots)}
        free == (1..unknowns) \ basic
    IN  IF Inconsistent(m, unknowns)
        THEN [NoOutcome EXCEPT !.tag = "NoSolution"]
        ELSE IF Len(pivots) = unknowns
        THEN [NoOutcome EXCEPT
                !.tag = "UniqueSolution",
                !.values = [c \in 1..unknowns |-> m[rowOf(c)][unknowns + 1]]]
        ELSE [NoOutcome EXCEPT
                !.tag = "InfiniteSolutions",
                !.free = free,
                !.expressions =
                    [c \in 1..unknowns |->
                        IF c \in basic
                        THEN [basic |-> TRUE,
                              coefficients |->
                                 [f \in 1..unknowns |->
                                    IF f \in free THEN RNeg(m[rowOf(c)][f]) ELSE Zero],
                              constant |-> m[rowOf(c)][unknowns + 1]]
                        ELSE [basic |-> FALSE,
                              coefficients |-> [f \in 1..unknowns |-> Zero],
                              constant |-> Zero]]]

Coefficients == {0, 1}
Constants == {0, 1}

Equations(unknowns) ==
    {LinearEquation(cs, k) : cs \in SeqsOfLen(Coefficients, unknowns), k \in Constants}

\* x + y = 3, x - y = 1
SystemUnique == <<LinearEquation(<<1, 1>>, 3), LinearEquation(<<1, -1>>, 1)>>
\* x + y = 2, 2x + 2y = 4
SystemInfinite == <<LinearEquation(<<1, 1>>, 2), LinearEquation(<<2, 2>>, 4)>>
\* x + y = 1, x + y = 2
SystemNone == <<LinearEquation(<<1, 1>>, 1), LinearEquation(<<1, 1>>, 2)>>

Examples == {SystemUnique, SystemInfinite, SystemNone}

NoSystem ==
    [pc |-> "build", equations |-> <<>>, error |-> "none", unknowns |-> 0,
     m |-> <<>>, prow |-> 1, pcol |-> 1, pivots |-> <<>>, outcome |-> NoOutcome]

InitSolve ==
    /\ sys = NoSystem
    /\ IdleMatrix
    /\ IdleAlgebra

\* The caller constructs one more LinearEquation, of any arity.
AddEquation ==
    /\ sys.pc = "build"
    /\ Len(sys.equations) < MaxEquations
    /\ \E u \in 1..MaxUnknowns : \E eq \in Equations(u) :
         sys' = [sys EXCEPT !.equations = Append(sys.equations, eq)]
    /\ UNCHANGED <<heap, objs, rets, copies, res, stack, allocs, writes, p, q, lc>>

\* The caller constructs the equations of one of the documented systems.
AddExample ==
    /\ sys.pc = "build"
    /\ sys.equations = <<>>
    /\ \E system \in Examples : sys' = [sys EXCEPT !.equations = system]
    /\ UNCHANGED <<heap, objs, rets, copies, res, stack, allocs, writes, p, q, lc>>

\* The AugmentedMatrix is built from the equations.
Assemble ==
    /\ sys.pc = "build"
    /\ sys.equations # <<>>
    /\ LET built == BuildAugmented(sys.equations)
       IN  sys' = [sys EXCEPT
                     !.pc = IF built.error = "none" THEN "reduce" ELSE "failed",
                     !.error = built.error,
                     !.unknowns = built.unknowns,
                     !.m = built.rows]
    /\ UNCHANGED <<heap, objs, rets, copies, res, stack, allocs, writes, p, q, lc>>

Reducing ==
    /\ sys.pc = "reduce"
    /\ sys.prow <= Len(sys.m)
    /\ sys.pcol <= sys.unknowns

\* 4.2 step 2a, no pivot: the column is free, c advances and p stays
SkipColumn ==
    /\ Reducing
    /\ PivotCandidates(sys.m, sys.prow, sys.pcol) = {}
    /\ sys' = [sys EXCEPT !.pcol = sys.pcol + 1]
    /\ UNCHANGED <<heap, objs, rets, copies, res, stack, allocs, writes, p, q, lc>>

\* 4.2 steps 2a-2e with a pivot: swap, scale, eliminate, then p and c advance
PivotColumn ==
    /\ Reducing
    /\ PivotCandidates(sys.m, sys.prow, sys.pcol) # {}
    /\ sys' = [sys EXCEPT
                 !.m = PivotOn(sys.m, sys.prow, sys.pcol,
                               Min(PivotCandidates(sys.m, sys.prow, sys.pcol))),
                 !.pivots = Append(sys.pivots, sys.pcol),
                 !.prow = sys.prow + 1,
                 !.pcol = sys.pcol + 1]
    /\ UNCHANGED <<heap, objs, rets, copies, res, stack, allocs, writes, p, q, lc>>

\* 4.2 step 3 and 4.3: p > rows or the coefficient columns are exhausted
Solve ==
    /\ sys.pc = "reduce"
    /\ ~Reducing
    /\ sys' = [sys EXCEPT !.pc = "done",
                          !.outcome = Classify(sys.m, sys.unknowns, sys.pivots)]
    /\ UNCHANGED <<heap, objs, rets, copies, res, stack, allocs, writes, p, q, lc>>

NextSolve ==
    \/ AddEquation
    \/ AddExample
    \/ Assemble
    \/ SkipColumn
    \/ PivotColumn
    \/ Solve

SpecSolve == InitSolve /\ [][NextSolve]_vars

\* c1*x1 + ... + cn*xn for integer coefficients cs and rational x
RECURSIVE LeftSide(_, _, _)
LeftSide(cs, x, j) ==
    IF j > Len(cs) THEN Zero
    ELSE RAdd(RMul(Int2Rat(cs[j]), x[j]), LeftSide(cs, x, j + 1))

\* x solves every equation.
Satisfies(equations, x) ==
    \A i \in 1..Len(equations) :
        LeftSide(equations[i].coefficients, x, 1) = Int2Rat(equations[i].constant)

\* The candidate solutions the systems are tried against.
Grid == {Int2Rat(i) : i \in -2..2}

\* constant + sum over the free variables f of coefficients[f] * t[f]
RECURSIVE Affine(_, _, _)
Affine(e, t, f) ==
    IF f > Len(e.coefficients) THEN e.constant
    ELSE RAdd(RMul(e.coefficients[f], t[f]), Affine(e, t, f + 1))

\* The point an InfiniteSolutions outcome gives for the free values t.
PointAt(outcome, t) ==
    [c \in 1..Len(outcome.expressions) |->
        IF c \in outcome.free THEN t[c] ELSE Affine(outcome.expressions[c], t, 1)]

\* C10: solving yields exactly one of NoSolution (some reduced row has
\* all-zero coefficients and a non-zero constant), else UniqueSolution (as
\* many pivots as unknowns, each value the constant of its pivot row), else
\* InfiniteSolutions (the non-pivot unknowns free, the others affine in
\* them); the values solve the equations, the affine expressions solve them
\* for every value of the free unknowns, and a NoSolution system has no
\* solution; x+y=3, x-y=1 gives [2,1], x+y=2, 2x+2y=4 gives y free and
\* x = 2 - y, x+y=1, x+y=2 gives NoSolution.
C10_SolveClassifies ==
    sys.pc = "done" =>
        LET out == sys.outcome
            n == sys.unknowns
        IN  /\ out.tag \in {"NoSolution", "UniqueSolution", "InfiniteSolutions"}
            /\ out.tag = "NoSolution" <=> Inconsistent(sys.m, n)
            /\ out.tag = "UniqueSolution"
                 <=> (~Inconsistent(sys.m, n) /\ Len(sys.pivots) = n)
            /\ out.tag = "NoSolution"
                 => \A x \in [1..n -> Grid] : ~Satisfies(sys.equations, x)
            /\ out.tag = "UniqueSolution"
                 => /\ Len(out.values) = n
                    /\ Satisfies(sys.equations, out.values)
                    /\ \A x \in [1..n -> Grid] :
                         Satisfies(sys.equations, x) => x = out.values
            /\ out.tag = "InfiniteSolutions"
                 => /\ out.free # {}
                    /\ \A t \in [1..n -> {Zero, One}] :
                         Satisfies(sys.equations, PointAt(out, t))
            /\ sys.equations = SystemUnique
                 => out.tag = "UniqueSolution" /\ out.values = <<Int2Rat(2), Int2Rat(1)>>
            /\ sys.equations = SystemInfinite
                 => /\ out.tag = "InfiniteSolutions"
                    /\ out.free = {2}
                    /\ out.expressions[1].constant = Int2Rat(2)
                    /\ out.expressions[1].coefficients[2] = Int2Rat(-1)
            /\ sys.equations = SystemNone => out.tag = "NoSolution"

\* x + y = 2, 2x + 2y = 4 has been solved, with y free.
C10_Witness ==
    /\ sys.pc = "done"
    /\ sys.equations = SystemInfinite
    /\ sys.outcome.tag = "InfiniteSolutions"
    /\ sys.outcome.free = {2}

====
